---- MODULE Spec2Model ----
(***************************************************************************)
(* atman-prompts: the file-materialization workflow of src/index.ts        *)
(* (main, generatePromptFiles), lib/file-operations (checkFileExists,      *)
(* createFileIfNotExists), lib/directory-manager (ensureDirectoryExists,   *)
(* createDirectoryStructure) and lib/template-generator                    *)
(* (discoverTemplateFiles, readTemplateFile, loadTemplatesFromRepository). *)
(*                                                                         *)
(* The filesystem under outputDir and the bundled template storage are     *)
(* part of the state.  An I/O call fails when the filesystem state makes   *)
(* it fail: a missing or unsearchable directory, a regular file where a    *)
(* directory is needed, a path the process may not create.                 *)
(***************************************************************************)
EXTENDS Integers, Sequences, FiniteSets, TLC

\* ------------------------------------------------------------------ bounds
\* Longest list of requested language codes (options.languages).
MaxLangs == 2

\* Longest list of FileCreationResults handed to logResults.
MaxResults == 2

\* ------------------------------------------------------------- value sets
\* Language codes: the two built-in codes and one code without templates.
Langs == {"en", "ja", "zz"}

\* PROMPTS_CONFIG.baseDirectory, the default of --output-dir.
outputDir == ".prompts"

\* Entry names that occur in the bundled template directories.
EntryNames == {"a.md", "b.md", "notes.txt", "old.md"}

NoFile == "<absent>"

\* The content of a file that open created and no write filled.
Empty == ""
NoError == "<undefined>"
Custom == "custom"

\* node:path join for the three segments the program joins.
join(a, b, c) == a \o "/" \o b \o "/" \o c

\* node:path join for the two segments of a language directory.
joinDir(a, b) == a \o "/" \o b

\* Every path outputDir/<language>/<entry> the model keeps a file state for.
Paths == {join(outputDir, l, f) : l \in Langs, f \in EntryNames}

\* The text of the bundled document templates/<language>/<fileName>.
TemplateContent(l, f) == "template " \o l \o " " \o f

\* String.prototype.endsWith('.md') on the entry names of the model.
EndsWithMd(f) == f \in {"a.md", "b.md", "old.md"}

RECURSIVE FilterMd(_)
\* files.filter((file) => file.endsWith('.md')), order kept.
FilterMd(s) ==
    IF s = <<>> THEN <<>>
    ELSE IF EndsWithMd(Head(s))
         THEN <<Head(s)>> \o FilterMd(Tail(s))
         ELSE FilterMd(Tail(s))

Range(s) == {s[i] : i \in DOMAIN s}

VARIABLES
    \* --- input
    languages,      \* options.languages, a sequence of language codes
    \* --- bundled template storage (read-only)
    repoDir,        \* [Langs -> [exists, entries, dirs]]: templates/<language>
    unreadable,     \* bundled files whose readFile fails
    \* --- target filesystem
    baseDir,        \* what is at outputDir: "absent", "dir" or "file"
    langDir,        \* [Langs -> "absent" | "dir" | "file"]: outputDir/<language>
    files,          \* [Paths -> content or NoFile]
    baseDenied,     \* mkdir(outputDir) is refused when it has to create it
    mkdirDenied,    \* languages whose mkdir is refused when it has to create
    unsearchable,   \* language directories that cannot be searched or written
    writeDenied,    \* paths at which writeFile cannot create a file
    noSpace,        \* the disk is full: open creates the file, write fails
    \* --- main / generatePromptFiles
    pc,             \* position of main
    pending,        \* indexes of languages whose mkdir has not settled
    langIdx,        \* index of the language main's loop is at
    templates,      \* templateResult.templates of the current language
    tmplIdx,        \* index of the template the inner loop is at
    fileCheck,      \* result of the last checkFileExists, before the write
    createdFiles, skippedFiles, errors,             \* generatePromptFiles
    allCreatedFiles, allSkippedFiles, allErrors,    \* main
    reported,       \* TRUE once main has printed the result summary
    totalFiles,     \* result.totalFiles of main's GenerationResult
    fatal,          \* TRUE once main's outer catch has run
    exitCode,       \* exit status of the process
    \* --- history
    run,            \* 1 for the first invocation, 2 for the second
    files0,         \* files when the current invocation started
    baseDir0,       \* baseDir when the current invocation started
    langDir0,       \* langDir when the current invocation started
    loads,          \* loadTemplatesFromRepository calls:
                    \*   [idx, language, discovered, result]
    calls,          \* createFileIfNotExists calls: [idx, path, content, before, result]
    returns,        \* what each generatePromptFiles call returned to main
    first,          \* outcome of the first invocation, once a second started
    \* --- createDirectoryStructure
    ensured,        \* ensureDirectoryExists calls that have settled
    structure,      \* the DirectoryStructure returned to main, once returned
    \* --- logger
    results,        \* the list of FileCreationResults logResults is called with
    logged,         \* the lines logResults has written, once it was called
    \* --- concurrent invocations
    runs            \* per concurrent invocation: its position and its lists

envVars == <<languages, repoDir, unreadable, baseDenied, mkdirDenied,
             unsearchable, writeDenied, noSpace>>
fsVars == <<baseDir, langDir, files>>
genVars == <<templates, tmplIdx, fileCheck, createdFiles, skippedFiles, errors>>
mainVars == <<pc, pending, langIdx, allCreatedFiles, allSkippedFiles, allErrors,
              reported, fatal, exitCode>>
histVars == <<run, files0, baseDir0, langDir0, loads, calls, returns, first>>
dirVars == <<ensured, structure>>
logVars == <<results, logged>>
vars == <<envVars, fsVars, genVars, mainVars, totalFiles, histVars, dirVars, logVars,
          runs>>

\* ------------------------------------------------- filesystem primitives
\* fs.mkdir(outputDir, {recursive: true}): "ok" or the error code it throws.
MkdirBase ==
    CASE baseDir = "dir"    -> "ok"
      [] baseDir = "file"   -> "EEXIST"
      [] OTHER              -> IF baseDenied THEN "EACCES" ELSE "ok"

\* fs.mkdir(outputDir/<l>, {recursive: true}): "ok" or the error code.
MkdirLang(l) ==
    CASE baseDir = "file"     -> "ENOTDIR"
      [] langDir[l] = "dir"   -> "ok"
      [] langDir[l] = "file"  -> "EEXIST"
      [] OTHER                -> IF baseDenied \/ l \in mkdirDenied
                                 THEN "EACCES" ELSE "ok"

\* fs.access(outputDir/<l>/<f>, F_OK): "ok" or the error code.
Access(l, f) ==
    CASE baseDir # "dir"       -> IF baseDir = "file" THEN "ENOTDIR" ELSE "ENOENT"
      [] langDir[l] = "file"   -> "ENOTDIR"
      [] langDir[l] = "absent" -> "ENOENT"
      [] l \in unsearchable    -> "EACCES"
      [] files[join(outputDir, l, f)] = NoFile -> "ENOENT"
      [] OTHER                 -> "ok"

\* fs.writeFile(outputDir/<l>/<f>, content, 'utf8'): "ok" or the error code.
\* It opens with flag 'w': an existing file is truncated and rewritten, an
\* absent one is created; "ENOSPC" is the write failing after that open.
WriteFile(l, f) ==
    CASE baseDir # "dir"       -> IF baseDir = "file" THEN "ENOTDIR" ELSE "ENOENT"
      [] langDir[l] = "file"   -> "ENOTDIR"
      [] langDir[l] = "absent" -> "ENOENT"
      [] l \in unsearchable    -> "EACCES"
      [] join(outputDir, l, f) \in writeDenied -> "EACCES"
      [] noSpace               -> "ENOSPC"
      [] OTHER                 -> "ok"

\* error.message of the Error a failed fs call throws.
ErrnoMessage(code, syscall, path) ==
    code \o ": " \o syscall \o " '" \o path \o "'"

\* ------------------------------------------------------ directory-manager
\* ensureDirectoryExists, given what mkdir did: TRUE when it returns true,
\* FALSE when it rethrows the error.
ensureDirectoryExists(code) ==
    IF code = "ok" THEN TRUE
    ELSE IF code = "EEXIST" THEN TRUE
    ELSE FALSE

\* Mutant of FilesAfterMkdir: the directory is made anew, without what it
\* held.
FilesAfterMkdirEmptied(l) ==
    [p \in Paths |-> IF \E f \in EntryNames : p = join(outputDir, l, f)
                     THEN NoFile ELSE files[p]]

\* The files under outputDir/<l> after mkdir(outputDir/<l>, {recursive:
\* true}): mkdir creates what is missing and touches nothing that exists.
FilesAfterMkdir(l) == files

\* One settled ensureDirectoryExists call: what was at dirPath before, what
\* mkdir answered, whether the call returned true, what is at dirPath after.
EnsureRecord(i, dirPath, before, code, after) ==
    [idx |-> i, path |-> dirPath, before |-> before, code |-> code,
     returned |-> ensureDirectoryExists(code), after |-> after]

\* Mutant of createDirectoryStructure: the language directories are listed
\* by their language code, not joined to the base directory.
createDirectoryStructureNotJoined(base, langs) ==
    [returned |-> TRUE, baseDir |-> base,
     languageDirs |-> [i \in DOMAIN langs |-> langs[i]]]

\* The DirectoryStructure createDirectoryStructure returns: Promise.all
\* keeps the input order of languages.map.
createDirectoryStructure(base, langs) ==
    [returned |-> TRUE, baseDir |-> base,
     languageDirs |-> [i \in DOMAIN langs |-> joinDir(base, langs[i])]]

\* The value of structure while createDirectoryStructure has not returned.
NoStructure == [returned |-> FALSE, baseDir |-> "", languageDirs |-> <<>>]

\* -------------------------------------------------------- file-operations
\* Mutant of checkFileExists: the probe never finds the file.
checkFileExistsNeverFinds(l, f) ==
    [exists |-> FALSE, path |-> join(outputDir, l, f)]

\* Mutant of checkFileExists: every path is answered exists = true.
checkFileExistsAlwaysFinds(l, f) ==
    [exists |-> TRUE, path |-> join(outputDir, l, f)]

\* checkFileExists: every error of access is answered exists = false.
checkFileExists(l, f) ==
    [exists |-> Access(l, f) = "ok", path |-> join(outputDir, l, f)]

\* The FileCreationResult createFileIfNotExists returns when the file exists.
SkippedResult(filePath) ==
    [success |-> TRUE, path |-> filePath, skipped |-> TRUE, error |-> NoError]

\* Mutant of WriteResult: a failed write is returned as skipped, without
\* its message.
WriteResultFailureAsSkipped(filePath, code) ==
    IF code = "ok"
    THEN [success |-> TRUE, path |-> filePath, skipped |-> FALSE, error |-> NoError]
    ELSE [success |-> FALSE, path |-> filePath, skipped |-> TRUE, error |-> NoError]

\* The FileCreationResult createFileIfNotExists returns after writeFile:
\* code is "ok" or the error code writeFile threw.
WriteResult(filePath, code) ==
    IF code = "ok"
    THEN [success |-> TRUE, path |-> filePath, skipped |-> FALSE, error |-> NoError]
    ELSE [success |-> FALSE, path |-> filePath, skipped |-> FALSE,
          error |-> ErrnoMessage(code, IF code = "ENOSPC" THEN "write" ELSE "open",
                                 filePath)]

\* ------------------------------------------------------ template-generator
\* getPackageTemplatesPath joined with the language and the file name.
TemplatePath(l, f) == join("templates", l, f)

\* Mutant of discoverTemplateFiles: the '.md' filter is left out.
discoverTemplateFilesUnfiltered(l) ==
    IF repoDir[l].exists THEN repoDir[l].entries ELSE <<>>

\* Mutant of discoverTemplateFiles: when readdir throws, a default list of
\* names is returned.
discoverTemplateFilesDefaultNames(l) ==
    IF repoDir[l].exists THEN FilterMd(repoDir[l].entries) ELSE <<"a.md">>

\* discoverTemplateFiles: the entries of templates/<l> whose name ends in
\* '.md', in readdir order (readdir gives the names of files and of
\* subdirectories alike); the empty list when readdir throws.
discoverTemplateFiles(l) ==
    IF repoDir[l].exists THEN FilterMd(repoDir[l].entries) ELSE <<>>

\* The message of the Error readTemplateFile throws for an unreadable file;
\* readFile on a subdirectory fails with EISDIR.
ReadError(f, l) ==
    "Failed to read template file " \o f \o " for language " \o l \o ": "
        \o IF f \in repoDir[l].dirs
           THEN ErrnoMessage("EISDIR", "read", TemplatePath(l, f))
           ELSE ErrnoMessage("ENOENT", "open", TemplatePath(l, f))

\* The orders in which n reads issued together can complete: order[k] is
\* the index of the read that completes k-th.
Orders(n) ==
    {order \in [1..n -> 1..n] :
        \A i \in 1..n, j \in 1..n : order[i] = order[j] => i = j}

\* Mutant of PromiseAll: the values are gathered in the order in which the
\* promises are fulfilled.
PromiseAllInCompletionOrder(values, order) ==
    [k \in DOMAIN values |-> values[order[k]]]

\* Promise.all of promises that are all fulfilled: the array of their values
\* by input index, whatever the order in which they were fulfilled.
PromiseAll(values, order) ==
    [i \in DOMAIN values |-> values[i]]

\* Mutant of loadTemplatesFromRepository: the check for an empty discovery
\* is left out, so an unknown language loads as an empty success.
loadTemplatesFromRepositoryNoEmptyCheck(l) ==
    LET templateFiles == discoverTemplateFiles(l)
        bad == {i \in DOMAIN templateFiles :
                    TemplatePath(l, templateFiles[i]) \in unreadable}
    IN  IF bad # {}
        THEN {[success |-> FALSE, templates |-> <<>>,
               error |-> ReadError(templateFiles[i], l)] : i \in bad}
        ELSE {[success |-> TRUE,
               templates |-> [i \in DOMAIN templateFiles |->
                                [fileName |-> templateFiles[i],
                                 content |-> TemplateContent(l, templateFiles[i]),
                                 language |-> l]],
               error |-> NoError]}

\* Mutant of loadTemplatesFromRepository: the reads that fail are left out
\* and the templates that could be read are returned as a success.
loadTemplatesFromRepositoryPartial(l) ==
    LET templateFiles == discoverTemplateFiles(l)
        readable == LET CanRead(f) == TemplatePath(l, f) \notin unreadable
                    IN  SelectSeq(templateFiles, CanRead)
    IN  IF Len(templateFiles) = 0
        THEN {[success |-> FALSE, templates |-> <<>>,
               error |-> "No template files found for language: " \o l]}
        ELSE {[success |-> TRUE,
               templates |-> [i \in DOMAIN readable |->
                                [fileName |-> readable[i],
                                 content |-> TemplateContent(l, readable[i]),
                                 language |-> l]],
               error |-> NoError]}

\* loadTemplatesFromRepository: the TemplateLoadResults it can return.  The
\* reads are issued together and Promise.all rejects with the rejection that
\* comes first, so any unreadable file can supply the message; when every
\* read succeeds the reads can complete in any order.
loadTemplatesFromRepository(l) ==
    LET templateFiles == discoverTemplateFiles(l)
        bad == {i \in DOMAIN templateFiles :
                    TemplatePath(l, templateFiles[i]) \in unreadable}
    IN  IF Len(templateFiles) = 0
        THEN {[success |-> FALSE, templates |-> <<>>,
               error |-> "No template files found for language: " \o l]}
        ELSE IF bad # {}
        THEN {[success |-> FALSE, templates |-> <<>>,
               error |-> ReadError(templateFiles[i], l)] : i \in bad}
        ELSE {[success |-> TRUE,
               templates |-> PromiseAll([i \in DOMAIN templateFiles |->
                                           [fileName |-> templateFiles[i],
                                            content |-> TemplateContent(l, templateFiles[i]),
                                            language |-> l]], order),
               error |-> NoError] : order \in Orders(Len(templateFiles))}

\* ----------------------------------------------------------------- logger
\* A string as a condition: undefined and '' are falsy.
Truthy(str) == str # NoError /\ str # ""

\* One line written by log(level, message) or console.log; the icon the
\* level adds in front of the message is left to the level.
Line(level, message) == [level |-> level, message |-> message]

\* logResults: the lines it writes for a list of results (createdResults,
\* skippedResults and errorResults are its createdFiles, skippedFiles and
\* errorFiles).
logResults(rs) ==
    LET IsCreated(r) == r.success /\ ~r.skipped
        IsSkipped(r) == r.skipped
        IsError(r) == ~r.success /\ Truthy(r.error)
        createdResults == SelectSeq(rs, IsCreated)
        skippedResults == SelectSeq(rs, IsSkipped)
        errorResults == SelectSeq(rs, IsError)
        createdLines == [i \in DOMAIN createdResults |->
                            Line("log", "  created " \o createdResults[i].path)]
        skippedLines == [i \in DOMAIN skippedResults |->
                            Line("log", "  skipped " \o skippedResults[i].path)]
        errorLines == [i \in DOMAIN errorResults |->
                          Line("log", "  failed " \o errorResults[i].path \o ": "
                                          \o errorResults[i].error)]
    IN  <<Line("info", "File generation completed: " \o ToString(Len(rs))
                           \o " files processed")>>
        \o (IF Len(createdResults) > 0
            THEN <<Line("success", "Created " \o ToString(Len(createdResults))
                                       \o " new prompt files:")>>
                 \o createdLines
            ELSE <<>>)
        \o (IF Len(skippedResults) > 0
            THEN <<Line("warning", "Skipped " \o ToString(Len(skippedResults))
                                       \o " existing files (preserved):")>>
                 \o skippedLines
            ELSE <<>>)
        \o (IF Len(errorResults) > 0
            THEN <<Line("error", "Failed to create " \o ToString(Len(errorResults))
                                     \o " files:")>>
                 \o errorLines
            ELSE <<>>)
        \o (IF Len(errorResults) = 0
            THEN <<Line("success", "All operations completed successfully!")>>
            ELSE <<Line("warning", "Completed with " \o ToString(Len(errorResults))
                          \o " errors. Check the messages above for details.")>>)

\* The value of logged while logResults has not been called.
NoLog == <<>>

\* ------------------------------------------------------------------- Init
\* The lists of language codes the CLI can pass (duplicates are not removed).
Requests == UNION {[1..n -> Langs] : n \in 0..MaxLangs}

\* The bundled storage: en holds two documents and a stray entry, ja one
\* document; zz has no directory (or one readdir cannot list), a directory
\* without any document, or a directory that holds a stray entry and a
\* subdirectory named old.md.  dirs are the entries that are subdirectories.
RepoDirs ==
    {[l \in Langs |->
        CASE l = "en" -> [exists |-> TRUE, entries |-> <<"a.md", "notes.txt", "b.md">>,
                          dirs |-> {}]
          [] l = "ja" -> [exists |-> TRUE, entries |-> <<"a.md">>, dirs |-> {}]
          [] OTHER    -> [exists |-> zz # "none",
                          entries |-> CASE zz = "none"  -> <<>>
                                        [] zz = "stray" -> <<"notes.txt">>
                                        [] OTHER        -> <<"notes.txt", "old.md">>,
                          dirs |-> IF zz = "subdir" THEN {"old.md"} ELSE {}]]
     : zz \in {"none", "stray", "subdir"}}

\* The value of first while no second invocation has started.
NoFirst ==
    [done |-> FALSE, createdFiles |-> <<>>, skippedFiles |-> <<>>, errors |-> <<>>,
     fatal |-> FALSE, reported |-> FALSE, exitCode |-> 0,
     files |-> [p \in Paths |-> NoFile], files0 |-> [p \in Paths |-> NoFile],
     baseDir0 |-> "absent", langDir0 |-> [l \in Langs |-> "absent"]]

EmptyGen ==
    /\ templates = <<>>
    /\ tmplIdx = 1
    /\ fileCheck = [exists |-> FALSE, path |-> ""]
    /\ createdFiles = <<>>
    /\ skippedFiles = <<>>
    /\ errors = <<>>

\* The state before main is called.  What the program never looks at (the
\* directories and files of languages that were not requested) is left in
\* one arbitrary state: absent.
Init ==
    /\ languages \in Requests
    /\ repoDir \in {r \in RepoDirs : r["zz"].exists => "zz" \in Range(languages)}
    /\ unreadable \in SUBSET UNION {{TemplatePath(l, f) :
                                        f \in Range(discoverTemplateFiles(l))} :
                                     l \in Range(languages)}
    /\ \A l \in Range(languages) :
           \A f \in repoDir[l].dirs : TemplatePath(l, f) \in unreadable
    /\ baseDir \in {"absent", "dir", "file"}
    /\ langDir \in {d \in [Langs -> {"absent", "dir", "file"}] :
                      \A l \in Langs :
                          d[l] # "absent" => baseDir = "dir" /\ l \in Range(languages)}
    /\ unsearchable \in SUBSET {l \in Langs : langDir[l] = "dir"}
    /\ files \in {[p \in Paths |-> IF p \in c THEN Custom ELSE NoFile] :
                    c \in SUBSET UNION {{join(outputDir, l, f) :
                                            f \in Range(discoverTemplateFiles(l))
                                                   \ repoDir[l].dirs} :
                                         l \in {k \in Langs : langDir[k] = "dir"}}}
    /\ baseDenied \in {b \in BOOLEAN : b => baseDir = "absent"}
    /\ mkdirDenied \in SUBSET {l \in Range(languages) :
                                 langDir[l] = "absent" /\ baseDir # "file" /\ ~baseDenied}
    /\ writeDenied \in SUBSET UNION {{join(outputDir, l, f) :
                                         f \in Range(discoverTemplateFiles(l))
                                                \ repoDir[l].dirs} :
                                      l \in {k \in Range(languages) :
                                               /\ langDir[k] # "file"
                                               /\ k \notin unsearchable
                                               /\ k \notin mkdirDenied
                                               /\ baseDir # "file" /\ ~baseDenied}}
    /\ \A p \in writeDenied : files[p] = NoFile
    /\ noSpace \in {b \in BOOLEAN :
                      b => /\ ~baseDenied /\ mkdirDenied = {} /\ writeDenied = {}
                           /\ unsearchable = {} /\ unreadable = {}}
    /\ pc = "start"
    /\ pending = {}
    /\ langIdx = 1
    /\ EmptyGen
    /\ allCreatedFiles = <<>>
    /\ allSkippedFiles = <<>>
    /\ allErrors = <<>>
    /\ reported = FALSE
    /\ totalFiles = 0
    /\ fatal = FALSE
    /\ exitCode = 0
    /\ run = 1
    /\ files0 = files
    /\ baseDir0 = baseDir
    /\ langDir0 = langDir
    /\ loads = <<>>
    /\ calls = <<>>
    /\ returns = <<>>
    /\ first = NoFirst
    /\ ensured = {}
    /\ structure = NoStructure
    /\ results = <<>>
    /\ logged = NoLog
    /\ runs = <<>>

\* ---------------------------------------------------------------- actions
\* main's outer catch: print the fatal error and process.exit(1).
Fatal ==
    /\ fatal' = TRUE
    /\ exitCode' = 1
    /\ pc' = "exited"
    /\ UNCHANGED <<langIdx, allCreatedFiles, allSkippedFiles, allErrors, reported>>

\* main up to createDirectoryStructure's first await: the base directory is
\* ensured, then one mkdir per requested language is issued, all at once.
Start ==
    /\ pc = "start"
    /\ IF ensureDirectoryExists(MkdirBase)
       THEN /\ baseDir' = IF baseDir = "absent" THEN "dir" ELSE baseDir
            /\ pending' = DOMAIN languages
            /\ pc' = "mkdirs"
            /\ UNCHANGED <<langIdx, allCreatedFiles, allSkippedFiles, allErrors,
                           reported, fatal, exitCode>>
       ELSE /\ Fatal
            /\ UNCHANGED <<baseDir, pending>>
    /\ ensured' = ensured \cup {EnsureRecord(0, outputDir, baseDir, MkdirBase, baseDir')}
    /\ UNCHANGED <<logVars, runs, totalFiles, envVars, langDir, files, genVars, histVars, structure>>

\* Mutant of EnsureLanguageDir: the directory is made only for a language
\* that has bundled templates.
EnsureLanguageDirKnownOnly(i) ==
    /\ pc = "mkdirs"
    /\ i \in pending
    /\ IF ensureDirectoryExists(MkdirLang(languages[i]))
       THEN /\ langDir' = IF /\ MkdirLang(languages[i]) = "ok"
                             /\ discoverTemplateFiles(languages[i]) # <<>>
                          THEN [langDir EXCEPT ![languages[i]] = "dir"]
                          ELSE langDir
            /\ pending' = pending \ {i}
            /\ UNCHANGED <<pc, langIdx, allCreatedFiles, allSkippedFiles, allErrors,
                           reported, fatal, exitCode>>
       ELSE /\ Fatal
            /\ UNCHANGED <<langDir, pending>>
    /\ files' = FilesAfterMkdir(languages[i])
    /\ ensured' = ensured \cup
           {EnsureRecord(i, joinDir(outputDir, languages[i]), langDir[languages[i]],
                         MkdirLang(languages[i]), langDir'[languages[i]])}
    /\ UNCHANGED <<logVars, runs, totalFiles, envVars, baseDir, genVars, histVars, structure>>

\* One of the mkdir calls issued by languages.map settles.  A rejection
\* rejects Promise.all at once: createDirectoryStructure throws into main's
\* outer catch while the other calls may not have run yet.
EnsureLanguageDir(i) ==
    /\ pc = "mkdirs"
    /\ i \in pending
    /\ IF ensureDirectoryExists(MkdirLang(languages[i]))
       THEN /\ langDir' = IF MkdirLang(languages[i]) = "ok"
                          THEN [langDir EXCEPT ![languages[i]] = "dir"]
                          ELSE langDir
            /\ pending' = pending \ {i}
            /\ UNCHANGED <<pc, langIdx, allCreatedFiles, allSkippedFiles, allErrors,
                           reported, fatal, exitCode>>
       ELSE /\ Fatal
            /\ UNCHANGED <<langDir, pending>>
    /\ files' = FilesAfterMkdir(languages[i])
    /\ ensured' = ensured \cup
           {EnsureRecord(i, joinDir(outputDir, languages[i]), langDir[languages[i]],
                         MkdirLang(languages[i]), langDir'[languages[i]])}
    /\ UNCHANGED <<logVars, runs, totalFiles, envVars, baseDir, genVars, histVars, structure>>

\* Mutant of StructureCreated: createDirectoryStructure returns without
\* awaiting the mkdir calls of languages.map.
StructureCreatedNotAwaited ==
    /\ pc = "mkdirs"
    /\ pc' = "loop"
    /\ langIdx' = 1
    /\ allCreatedFiles' = <<>>
    /\ allSkippedFiles' = <<>>
    /\ allErrors' = <<>>
    /\ structure' = createDirectoryStructure(outputDir, languages)
    /\ UNCHANGED <<logVars, runs, totalFiles, envVars, fsVars, genVars, histVars, pending, reported, fatal,
                   exitCode, ensured>>

\* Promise.all has resolved: createDirectoryStructure returns, main prints
\* the directory line and starts its loop over the languages.
StructureCreated ==
    /\ pc = "mkdirs"
    /\ pending = {}
    /\ pc' = "loop"
    /\ langIdx' = 1
    /\ allCreatedFiles' = <<>>
    /\ allSkippedFiles' = <<>>
    /\ allErrors' = <<>>
    /\ structure' = createDirectoryStructure(outputDir, languages)
    /\ UNCHANGED <<logVars, runs, totalFiles, envVars, fsVars, genVars, histVars, pending, reported, fatal,
                   exitCode, ensured>>

\* The entry generatePromptFiles records when the template load failed.
LoadErrorEntry(l, message) ==
    "Failed to load templates for " \o l \o ": " \o message

\* The entry generatePromptFiles records when createFileIfNotExists failed.
CreateErrorEntry(filePath, message) ==
    "Failed to create " \o filePath \o ": " \o message

\* The list generatePromptFiles adds a FileCreationResult's path to.
Classify(result) ==
    IF result.success
    THEN IF result.skipped THEN "skipped" ELSE "created"
    ELSE "error"

\* Mutant of NextTemplate: a template whose file could not be created is
\* attempted again.
NextTemplateRetries(idx, result) == IF result.success THEN idx + 1 ELSE idx

\* Mutant of NextTemplate: the inner loop is left at the first failed file.
NextTemplateStopsOnFailure(idx, result) ==
    IF result.success THEN idx + 1 ELSE Len(templates) + 1

\* The inner for loop of generatePromptFiles after one template: it goes on
\* to the next template whatever the result was.
NextTemplate(idx, result) == idx + 1

\* Mutant of NextLanguage: main's loop is left at the first language that
\* returned an error.
NextLanguageStopsOnError(idx, ret) ==
    IF ret.errors # <<>> THEN Len(languages) + 1 ELSE idx + 1

\* main's for loop after one language: it goes on to the next language
\* whatever generatePromptFiles returned.
NextLanguage(idx, ret) == idx + 1

\* Mutant of ExitStatus: a single collected error does not reach the exit
\* status.
ExitStatusOffByOne(errs) == IF Len(errs) > 1 THEN 1 ELSE 0

\* The exit status main ends with, from the errors it collected: process.exit(1)
\* when there is any, the normal end of the process otherwise.
ExitStatus(errs) == IF Len(errs) > 0 THEN 1 ELSE 0

\* result.totalFiles: the created and the skipped files together.
TotalFiles(created, skipped) == Len(created) + Len(skipped)

\* generatePromptFiles returns ret and main appends the three lists to its own.
ReturnToMain(ret) ==
    /\ allCreatedFiles' = allCreatedFiles \o ret.createdFiles
    /\ allSkippedFiles' = allSkippedFiles \o ret.skippedFiles
    /\ allErrors' = allErrors \o ret.errors
    /\ langIdx' = NextLanguage(langIdx, ret)
    /\ returns' = Append(returns, [idx |-> langIdx, language |-> languages[langIdx],
                                   createdFiles |-> ret.createdFiles,
                                   skippedFiles |-> ret.skippedFiles,
                                   errors |-> ret.errors])
    /\ pc' = "loop"

\* main calls generatePromptFiles for the next language, which loads its
\* templates.  A failed load is recorded and returned at once.
LoadTemplates ==
    /\ pc = "loop"
    /\ langIdx <= Len(languages)
    /\ \E templateResult \in loadTemplatesFromRepository(languages[langIdx]) :
        /\ loads' = Append(loads, [idx |-> langIdx, language |-> languages[langIdx],
                                   discovered |->
                                       discoverTemplateFiles(languages[langIdx]),
                                   result |-> templateResult])
        /\ IF ~templateResult.success
           THEN /\ ReturnToMain([createdFiles |-> <<>>, skippedFiles |-> <<>>,
                                 errors |-> <<LoadErrorEntry(languages[langIdx],
                                                             templateResult.error)>>])
                /\ UNCHANGED genVars
           ELSE /\ templates' = templateResult.templates
                /\ tmplIdx' = 1
                /\ createdFiles' = <<>>
                /\ skippedFiles' = <<>>
                /\ errors' = <<>>
                /\ pc' = "check"
                /\ UNCHANGED <<fileCheck, langIdx, allCreatedFiles, allSkippedFiles,
                               allErrors, returns>>
    /\ UNCHANGED <<logVars, runs, totalFiles, envVars, fsVars, pending, reported, fatal, exitCode,
                   run, files0, baseDir0, langDir0, calls, first, dirVars>>

\* createFileIfNotExists up to the end of checkFileExists.  When the file
\* exists it returns the skipped result, which generatePromptFiles records.
CheckFile ==
    /\ pc = "check"
    /\ tmplIdx <= Len(templates)
    /\ LET template == templates[tmplIdx]
           l == languages[langIdx]
           filePath == join(outputDir, l, template.fileName)
           check == checkFileExists(l, template.fileName)
           result == SkippedResult(filePath)
       IN  /\ fileCheck' = check
           /\ IF check.exists
              THEN /\ calls' = Append(calls, [idx |-> langIdx, path |-> filePath,
                                              content |-> template.content,
                                              before |-> files[filePath],
                                              result |-> result])
                   /\ createdFiles' = IF Classify(result) = "created"
                                      THEN Append(createdFiles, filePath) ELSE createdFiles
                   /\ skippedFiles' = IF Classify(result) = "skipped"
                                      THEN Append(skippedFiles, filePath) ELSE skippedFiles
                   /\ errors' = IF Classify(result) = "error"
                                THEN Append(errors, CreateErrorEntry(filePath, result.error))
                                ELSE errors
                   /\ tmplIdx' = NextTemplate(tmplIdx, result)
                   /\ pc' = "check"
              ELSE /\ pc' = "write"
                   /\ UNCHANGED <<calls, createdFiles, skippedFiles, errors, tmplIdx>>
    /\ UNCHANGED <<logVars, runs, totalFiles, envVars, fsVars, templates, pending, langIdx, allCreatedFiles,
                   allSkippedFiles, allErrors, reported, fatal, exitCode,
                   run, files0, baseDir0, langDir0, loads, returns, first, dirVars>>

\* createFileIfNotExists after checkFileExists answered exists = false:
\* writeFile, then the created or the failed result, which
\* generatePromptFiles records.
WriteTemplate ==
    /\ pc = "write"
    /\ LET template == templates[tmplIdx]
           l == languages[langIdx]
           filePath == join(outputDir, l, template.fileName)
           code == WriteFile(l, template.fileName)
           result == WriteResult(filePath, code)
       IN  /\ files' = CASE code = "ok" ->
                                [files EXCEPT ![filePath] = template.content]
                            [] code = "ENOSPC" ->
                                [files EXCEPT ![filePath] = Empty]
                            [] OTHER -> files
           /\ calls' = Append(calls, [idx |-> langIdx, path |-> filePath,
                                      content |-> template.content,
                                      before |-> files[filePath],
                                      result |-> result])
           /\ createdFiles' = IF Classify(result) = "created"
                              THEN Append(createdFiles, filePath) ELSE createdFiles
           /\ skippedFiles' = IF Classify(result) = "skipped"
                              THEN Append(skippedFiles, filePath) ELSE skippedFiles
           /\ errors' = IF Classify(result) = "error"
                        THEN Append(errors, CreateErrorEntry(filePath, result.error))
                        ELSE errors
           /\ tmplIdx' = NextTemplate(tmplIdx, result)
           /\ pc' = "check"
    /\ UNCHANGED <<logVars, runs, totalFiles, envVars, baseDir, langDir, templates, fileCheck, pending, langIdx,
                   allCreatedFiles, allSkippedFiles, allErrors, reported, fatal,
                   exitCode, run, files0, baseDir0, langDir0, loads, returns, first,
                   dirVars>>

\* The inner loop is over: generatePromptFiles returns its three lists.
ReturnFiles ==
    /\ pc = "check"
    /\ tmplIdx > Len(templates)
    /\ ReturnToMain([createdFiles |-> createdFiles, skippedFiles |-> skippedFiles,
                     errors |-> errors])
    /\ UNCHANGED <<logVars, runs, totalFiles, envVars, fsVars, genVars, pending, reported, fatal, exitCode,
                   run, files0, baseDir0, langDir0, loads, calls, first, dirVars>>

\* main's loop is over: it prints the created, skipped and error lists and
\* the process ends, with process.exit(1) when an error was collected.
Report ==
    /\ pc = "loop"
    /\ langIdx > Len(languages)
    /\ reported' = TRUE
    /\ totalFiles' = TotalFiles(allCreatedFiles, allSkippedFiles)
    /\ exitCode' = ExitStatus(allErrors)
    /\ pc' = "exited"
    /\ UNCHANGED <<logVars, runs, envVars, fsVars, genVars, histVars, dirVars, pending, langIdx,
                   allCreatedFiles, allSkippedFiles, allErrors, fatal>>

\* The command is run a second time on what the first invocation left.
Rerun ==
    /\ pc = "exited"
    /\ run = 1
    /\ run' = 2
    /\ first' = [done |-> TRUE, createdFiles |-> allCreatedFiles,
                 skippedFiles |-> allSkippedFiles, errors |-> allErrors,
                 fatal |-> fatal, reported |-> reported, exitCode |-> exitCode,
                 files |-> files, files0 |-> files0,
                 baseDir0 |-> baseDir0, langDir0 |-> langDir0]
    /\ files0' = files
    /\ baseDir0' = baseDir
    /\ langDir0' = langDir
    /\ loads' = <<>>
    /\ calls' = <<>>
    /\ returns' = <<>>
    /\ pc' = "start"
    /\ pending' = {}
    /\ langIdx' = 1
    /\ templates' = <<>>
    /\ tmplIdx' = 1
    /\ fileCheck' = [exists |-> FALSE, path |-> ""]
    /\ createdFiles' = <<>>
    /\ skippedFiles' = <<>>
    /\ errors' = <<>>
    /\ allCreatedFiles' = <<>>
    /\ allSkippedFiles' = <<>>
    /\ allErrors' = <<>>
    /\ reported' = FALSE
    /\ fatal' = FALSE
    /\ exitCode' = 0
    /\ ensured' = {}
    /\ structure' = NoStructure
    /\ totalFiles' = 0
    /\ UNCHANGED <<logVars, runs, envVars, fsVars>>

\* logResults(results) is called.
LogResults ==
    /\ logged = NoLog
    /\ logged' = logResults(results)
    /\ UNCHANGED <<results, runs, envVars, fsVars, genVars, mainVars, totalFiles, histVars,
                   dirVars>>

Next ==
    \/ Start
    \/ \E i \in 1..MaxLangs : EnsureLanguageDir(i)
    \/ StructureCreated
    \/ LoadTemplates
    \/ CheckFile
    \/ WriteTemplate
    \/ ReturnFiles
    \/ Report

\* One invocation of the command.
Spec == Init /\ [][Next]_vars

\* The output directory holds nothing yet (or does not exist yet).
InitEmpty ==
    /\ Init
    /\ baseDir # "file"
    /\ \A l \in Langs : langDir[l] = "absent"

NextTwice == Next \/ Rerun

\* Two invocations in succession on an output directory that starts empty.
SpecTwice == InitEmpty /\ [][NextTwice]_vars

\* ----------------------------------------- entry point without option parsing
\* What generatePromptFiles of that entry point hands to main: its
\* createdFiles ('return createdFiles', 'return []'); its skippedFiles and
\* errors stay local.
CreatedOnly(ret) ==
    [createdFiles |-> ret.createdFiles, skippedFiles |-> <<>>, errors |-> <<>>]

\* generatePromptFiles of that entry point loads the templates of the next
\* language; after a failed load it returns [].
LoadTemplatesCreatedOnly ==
    /\ pc = "loop"
    /\ langIdx <= Len(languages)
    /\ \E templateResult \in loadTemplatesFromRepository(languages[langIdx]) :
        /\ loads' = Append(loads, [idx |-> langIdx, language |-> languages[langIdx],
                                   discovered |->
                                       discoverTemplateFiles(languages[langIdx]),
                                   result |-> templateResult])
        /\ IF ~templateResult.success
           THEN /\ ReturnToMain(CreatedOnly([createdFiles |-> <<>>, skippedFiles |-> <<>>,
                                 errors |-> <<LoadErrorEntry(languages[langIdx],
                                                             templateResult.error)>>]))
                /\ UNCHANGED genVars
           ELSE /\ templates' = templateResult.templates
                /\ tmplIdx' = 1
                /\ createdFiles' = <<>>
                /\ skippedFiles' = <<>>
                /\ errors' = <<>>
                /\ pc' = "check"
                /\ UNCHANGED <<fileCheck, langIdx, allCreatedFiles, allSkippedFiles,
                               allErrors, returns>>
    /\ UNCHANGED <<logVars, runs, totalFiles, envVars, fsVars, pending, reported, fatal, exitCode,
                   run, files0, baseDir0, langDir0, calls, first, dirVars>>

\* The inner loop of that entry point is over: generatePromptFiles returns
\* createdFiles.
ReturnFilesCreatedOnly ==
    /\ pc = "check"
    /\ tmplIdx > Len(templates)
    /\ ReturnToMain(CreatedOnly([createdFiles |-> createdFiles, skippedFiles |-> skippedFiles,
                     errors |-> errors]))
    /\ UNCHANGED <<logVars, runs, totalFiles, envVars, fsVars, genVars, pending, reported, fatal, exitCode,
                   run, files0, baseDir0, langDir0, loads, calls, first, dirVars>>

\* parseArguments: the default output directory and languages.
InitDefaults ==
    /\ Init
    /\ languages = <<"en", "ja">>

NextDefaults ==
    \/ Start
    \/ \E i \in 1..MaxLangs : EnsureLanguageDir(i)
    \/ StructureCreated
    \/ LoadTemplatesCreatedOnly
    \/ CheckFile
    \/ WriteTemplate
    \/ ReturnFilesCreatedOnly
    \/ Report

\* One invocation of the entry point without option parsing.
SpecDefaults == InitDefaults /\ [][NextDefaults]_vars

\* The FileCreationResults of the type: error is optional and may be ''.
FileCreationResults ==
    [success : BOOLEAN, path : {join(outputDir, "en", "a.md")}, skipped : BOOLEAN,
     error : {NoError, "", "EACCES: permission denied"}]

\* The lists of results logResults can be called with.
ResultLists == UNION {[1..n -> FileCreationResults] : n \in 0..MaxResults}

\* main has not been called: its variables and the history are empty.
MainAtRest ==
    /\ pc = "start"
    /\ pending = {}
    /\ langIdx = 1
    /\ EmptyGen
    /\ allCreatedFiles = <<>>
    /\ allSkippedFiles = <<>>
    /\ allErrors = <<>>
    /\ reported = FALSE
    /\ totalFiles = 0
    /\ fatal = FALSE
    /\ exitCode = 0
    /\ run = 1
    /\ files0 = files
    /\ baseDir0 = baseDir
    /\ langDir0 = langDir
    /\ loads = <<>>
    /\ calls = <<>>
    /\ returns = <<>>
    /\ first = NoFirst
    /\ ensured = {}
    /\ structure = NoStructure

\* logResults is called on its own, as the logger tests call it: main is at
\* rest, with nothing requested.
InitLog ==
    /\ results \in ResultLists
    /\ logged = NoLog
    /\ languages = <<>>
    /\ repoDir \in {r \in RepoDirs : ~r["zz"].exists}
    /\ unreadable = {}
    /\ baseDir = "absent"
    /\ langDir = [l \in Langs |-> "absent"]
    /\ unsearchable = {}
    /\ files = [p \in Paths |-> NoFile]
    /\ baseDenied = FALSE
    /\ mkdirDenied = {}
    /\ writeDenied = {}
    /\ noSpace = FALSE
    /\ MainAtRest
    /\ runs = <<>>

NextLog == LogResults

\* ------------------------------------------- two concurrent invocations
\* Two processes run main against the same outputDir at the same time.  Each
\* keeps its own position and lists in runs[p]; the filesystem is shared.
\* The filesystem calls of one invocation are the steps: the mkdir calls of
\* createDirectoryStructure, the template load, access, the open of
\* writeFile (flag 'w' creates or truncates the file) and its write.
Procs == {1, 2}

\* The state of one invocation before it starts.
NewRun ==
    [pc |-> "start", langIdx |-> 1, templates |-> <<>>, tmplIdx |-> 1,
     createdFiles |-> <<>>, skippedFiles |-> <<>>, errors |-> <<>>]

\* Both invocations are given the same request, of distinct languages, and
\* the same storage; nothing in the environment refuses a call.
InitConcurrent ==
    /\ languages \in {r \in Requests : \A i, j \in DOMAIN r : r[i] = r[j] => i = j}
    /\ repoDir \in {r \in RepoDirs : r["zz"].dirs = {}
                                     /\ (r["zz"].exists => "zz" \in Range(languages))}
    /\ unreadable = {}
    /\ baseDir \in {"absent", "dir"}
    /\ langDir \in {[l \in Langs |-> IF l \in ds THEN "dir" ELSE "absent"] :
                      ds \in {d \in {{}, Range(languages)} : d # {} => baseDir = "dir"}}
    /\ unsearchable = {}
    /\ files \in {[p \in Paths |-> IF p \in c THEN Custom ELSE NoFile] :
                    c \in SUBSET UNION {{join(outputDir, l, f) :
                                            f \in Range(discoverTemplateFiles(l))} :
                                         l \in {k \in Langs : langDir[k] = "dir"}}}
    /\ baseDenied = FALSE
    /\ mkdirDenied = {}
    /\ writeDenied = {}
    /\ noSpace = FALSE
    /\ MainAtRest
    /\ results = <<>>
    /\ logged = NoLog
    /\ runs = [p \in Procs |-> NewRun]

\* What every step of a concurrent invocation leaves alone: the environment,
\* the one-process main and the logger.
ProcFrame ==
    UNCHANGED <<envVars, genVars, mainVars, totalFiles, histVars, dirVars, logVars>>

\* createDirectoryStructure of invocation p: outputDir, then the directory
\* of every requested language.
ProcCreateStructure(p) ==
    /\ runs[p].pc = "start"
    /\ ensureDirectoryExists(MkdirBase)
    /\ baseDir' = "dir"
    /\ \A i \in DOMAIN languages : ensureDirectoryExists(MkdirLang(languages[i]))
    /\ langDir' = [l \in Langs |-> IF l \in Range(languages) THEN "dir" ELSE langDir[l]]
    /\ runs' = [runs EXCEPT ![p].pc = "load"]
    /\ UNCHANGED files
    /\ ProcFrame

\* generatePromptFiles of invocation p loads the templates of its next
\* language; a failed load is recorded and the language is over.
ProcLoadTemplates(p) ==
    /\ runs[p].pc = "load"
    /\ runs[p].langIdx <= Len(languages)
    /\ \E templateResult \in loadTemplatesFromRepository(languages[runs[p].langIdx]) :
        runs' = [runs EXCEPT ![p] =
            IF ~templateResult.success
            THEN [@ EXCEPT !.errors = Append(@, LoadErrorEntry(
                                          languages[runs[p].langIdx],
                                          templateResult.error)),
                           !.langIdx = NextLanguage(@, [errors |-> <<"load">>])]
            ELSE [@ EXCEPT !.templates = templateResult.templates,
                           !.tmplIdx = 1,
                           !.pc = "check"]]
    /\ UNCHANGED fsVars
    /\ ProcFrame

\* createFileIfNotExists of invocation p up to the end of checkFileExists:
\* an existing file is recorded as skipped.
ProcCheckFile(p) ==
    /\ runs[p].pc = "check"
    /\ runs[p].tmplIdx <= Len(runs[p].templates)
    /\ LET template == runs[p].templates[runs[p].tmplIdx]
           l == languages[runs[p].langIdx]
           check == checkFileExists(l, template.fileName)
           result == SkippedResult(check.path)
       IN  runs' = [runs EXCEPT ![p] =
               IF check.exists
               THEN [@ EXCEPT !.skippedFiles = IF Classify(result) = "skipped"
                                               THEN Append(@, check.path) ELSE @,
                              !.tmplIdx = NextTemplate(@, result)]
               ELSE [@ EXCEPT !.pc = "write"]]
    /\ UNCHANGED fsVars
    /\ ProcFrame

\* writeFile of invocation p opens the file: it is created, or truncated
\* when another invocation has created it since the check.  A refused open
\* is recorded as an error.
ProcOpenFile(p) ==
    /\ runs[p].pc = "write"
    /\ LET template == runs[p].templates[runs[p].tmplIdx]
           l == languages[runs[p].langIdx]
           filePath == join(outputDir, l, template.fileName)
           code == WriteFile(l, template.fileName)
           result == WriteResult(filePath, code)
       IN  IF code \in {"ok", "ENOSPC"}
           THEN /\ files' = [files EXCEPT ![filePath] = Empty]
                /\ runs' = [runs EXCEPT ![p].pc = "flush"]
           ELSE /\ files' = files
                /\ runs' = [runs EXCEPT ![p] =
                       [@ EXCEPT !.errors = Append(@, CreateErrorEntry(filePath,
                                                                      result.error)),
                                 !.tmplIdx = NextTemplate(@, result),
                                 !.pc = "check"]]
    /\ UNCHANGED <<baseDir, langDir>>
    /\ ProcFrame

\* writeFile of invocation p writes the content into the file it opened and
\* createFileIfNotExists returns: the created result, or the failed one when
\* the device is full.
ProcWriteContent(p) ==
    /\ runs[p].pc = "flush"
    /\ LET template == runs[p].templates[runs[p].tmplIdx]
           l == languages[runs[p].langIdx]
           filePath == join(outputDir, l, template.fileName)
           code == IF noSpace THEN "ENOSPC" ELSE "ok"
           result == WriteResult(filePath, code)
       IN  /\ files' = IF code = "ok"
                       THEN [files EXCEPT ![filePath] = template.content]
                       ELSE files
           /\ runs' = [runs EXCEPT ![p] =
                  [@ EXCEPT !.createdFiles = IF Classify(result) = "created"
                                             THEN Append(@, filePath) ELSE @,
                            !.errors = IF Classify(result) = "error"
                                       THEN Append(@, CreateErrorEntry(filePath,
                                                                      result.error))
                                       ELSE @,
                            !.tmplIdx = NextTemplate(@, result),
                            !.pc = "check"]]
    /\ UNCHANGED <<baseDir, langDir>>
    /\ ProcFrame

\* The inner loop of invocation p is over: generatePromptFiles returns and
\* main goes on to the next language.
ProcReturnFiles(p) ==
    /\ runs[p].pc = "check"
    /\ runs[p].tmplIdx > Len(runs[p].templates)
    /\ runs' = [runs EXCEPT ![p] =
           [@ EXCEPT !.langIdx = NextLanguage(@, [errors |-> runs[p].errors]),
                     !.templates = <<>>,
                     !.tmplIdx = 1,
                     !.pc = "load"]]
    /\ UNCHANGED fsVars
    /\ ProcFrame

\* main of invocation p has gone through every language: it reports and ends.
ProcReport(p) ==
    /\ runs[p].pc = "load"
    /\ runs[p].langIdx > Len(languages)
    /\ runs' = [runs EXCEPT ![p].pc = "exited"]
    /\ UNCHANGED fsVars
    /\ ProcFrame

NextConcurrent ==
    \E p \in Procs :
        \/ ProcCreateStructure(p)
        \/ ProcLoadTemplates(p)
        \/ ProcCheckFile(p)
        \/ ProcOpenFile(p)
        \/ ProcWriteContent(p)
        \/ ProcReturnFiles(p)
        \/ ProcReport(p)

SpecConcurrent == InitConcurrent /\ [][NextConcurrent]_vars


\* logResults applied to every list of up to MaxResults results.
SpecLog == InitLog /\ [][NextLog]_vars

TypeOK ==
    /\ languages \in Requests
    /\ pc \in {"start", "mkdirs", "loop", "check", "write", "exited"}
    /\ pending \subseteq DOMAIN languages
    /\ langIdx \in 1..(Len(languages) + 1)
    /\ exitCode \in {0, 1}
    /\ \A p \in Paths : files[p] # NoFile =>
           \E l \in Langs, f \in EntryNames :
               p = join(outputDir, l, f) /\ langDir[l] = "dir" /\ baseDir = "dir"

\* ================================================================= claims
Requested == Range(languages)

Done == pc = "exited"

\* The bundled documents of a language, read off the storage itself.
Documents(l) ==
    IF repoDir[l].exists
    THEN {repoDir[l].entries[i] : i \in {k \in DOMAIN repoDir[l].entries :
                                             EndsWithMd(repoDir[l].entries[k])}}
    ELSE {}

\* outputDir/<language>/<fileName> for every bundled document of a requested
\* language.
TargetPaths ==
    UNION {{join(outputDir, l, f) : f \in Documents(l)} : l \in Requested}

\* The createFileIfNotExists calls made for the i-th requested language.
CallsOf(i) ==
    LET OfI(c) == c.idx = i IN SelectSeq(calls, OfI)

\* A load, a directory creation or a file write failed during the run.
ErrorOccurred ==
    \/ fatal
    \/ \E k \in DOMAIN loads : ~loads[k].result.success
    \/ \E k \in DOMAIN calls : ~calls[k].result.success

\* C1 (as stated): when the workflow has ended, every target path at which a
\* file existed when it started still holds the same content and is listed
\* among the skipped files of the report, not among the created files and
\* not as an error.
C1_NonDestructiveAndSkipped ==
    Done =>
        \A p \in TargetPaths :
            files0[p] # NoFile =>
                /\ files[p] = files0[p]
                /\ reported
                /\ p \in Range(allSkippedFiles)
                /\ p \notin Range(allCreatedFiles)
                /\ \A k \in DOMAIN calls :
                       calls[k].path = p => calls[k].result.success

\* The part of C1 the code keeps in every run: a file that existed at the
\* start is never rewritten and never listed as created.
ExistingFilesKept ==
    \A p \in Paths :
        files0[p] # NoFile =>
            files[p] = files0[p] /\ p \notin Range(allCreatedFiles)

\* The second invocation has ended.
SecondDone == run = 2 /\ Done /\ first.done

\* C2 (as stated): after two invocations in succession on an output
\* directory that started empty, every file the first one reported as
\* created is reported as skipped by the second, the second created nothing
\* and recorded no error, and every file's content is what the first left.
C2_SecondRunNoError ==
    SecondDone =>
        /\ Range(first.createdFiles) \subseteq Range(allSkippedFiles)
        /\ allCreatedFiles = <<>>
        /\ allErrors = <<>>
        /\ files = first.files

\* C2 (amended): as above, but the second invocation records at most as
\* many errors as the first one recorded (none when the first recorded none).
C2_Idempotent ==
    SecondDone =>
        /\ Range(first.createdFiles) \subseteq Range(allSkippedFiles)
        /\ allCreatedFiles = <<>>
        /\ Len(allErrors) <= Len(first.errors)
        /\ files = first.files

\* C2 witness: the second invocation has ended after a first one that
\* created files and recorded an error; the second reported those files as
\* skipped.
C2_Witness ==
    /\ SecondDone
    /\ first.createdFiles # <<>>
    /\ Range(first.createdFiles) \subseteq Range(allSkippedFiles)
    /\ first.errors # <<>>

\* Creating the subdirectory of language a fails: it was absent when the
\* run started and its mkdir is refused, while the base directory is fine.
DirCreationFails(a) ==
    /\ baseDir0 = "dir" \/ (baseDir0 = "absent" /\ ~baseDenied)
    /\ langDir0[a] = "absent"
    /\ a \in mkdirDenied

\* Language b has bundled documents that load, a subdirectory that exists or
\* can be created, and every target path free and writable.
Writable(b) ==
    /\ baseDir0 = "dir" \/ (baseDir0 = "absent" /\ ~baseDenied)
    /\ langDir0[b] = "dir" \/ (langDir0[b] = "absent" /\ b \notin mkdirDenied)
    /\ b \notin unsearchable
    /\ ~noSpace
    /\ Documents(b) # {}
    /\ \A f \in Documents(b) :
           /\ TemplatePath(b, f) \notin unreadable
           /\ files0[join(outputDir, b, f)] = NoFile
           /\ join(outputDir, b, f) \notin writeDenied

\* C3 (as stated): when the run has ended and the subdirectory of a
\* requested language A could not be created while a requested language B is
\* writable, every document of B has been created and reported as created
\* and the report holds a failure entry (for A).
C3_DirFailureKeepsOtherLanguages ==
    Done =>
        \A a \in Requested, b \in Requested :
            DirCreationFails(a) /\ Writable(b) =>
                /\ \A f \in Documents(b) :
                       /\ files[join(outputDir, b, f)] = TemplateContent(b, f)
                       /\ join(outputDir, b, f) \in Range(allCreatedFiles)
                /\ reported
                /\ allErrors # <<>>

\* The calls made for a language whose load succeeded run through its
\* templates in order: call j is for template j.
CallsFollowTemplates(i) ==
    LET l == languages[i]
        tl == loads[i].result.templates
        cs == CallsOf(i)
    IN  /\ Len(cs) = Len(tl)
        /\ \A j \in DOMAIN tl :
               /\ cs[j].path = join(outputDir, l, tl[j].fileName)
               /\ cs[j].content = TemplateContent(l, tl[j].fileName)

\* The path of call c was free and writable when the call was made.
CallWritable(c) ==
    /\ c.before = NoFile
    /\ c.path \notin writeDenied
    /\ ~noSpace
    /\ \E l \in Langs, f \in EntryNames :
           c.path = join(outputDir, l, f) /\ langDir[l] = "dir" /\ l \notin unsearchable

C5_ExitStatus ==
    Done =>
        /\ exitCode # 0 <=> ErrorOccurred
        /\ (reported /\ allErrors = <<>>) => exitCode = 0

\* C5 witness: a run that skipped a file and saw no failure has ended with
\* status 0.
C5_Witness ==
    /\ Done
    /\ reported
    /\ allSkippedFiles # <<>>
    /\ ~ErrorOccurred
    /\ exitCode = 0

\* C6 (as stated): the process never ends before main has gone through
\* every requested language and printed the result summary.
C6_AlwaysReports ==
    Done => reported /\ Len(returns) = Len(languages)

\* The entry a language without bundled documents leaves in the report.
NoTemplatesEntry(l) ==
    "Failed to load templates for " \o l
        \o ": No template files found for language: " \o l

\* C7: once main has called generatePromptFiles for a language for which no
\* bundled document is discovered, that call has returned exactly one error
\* entry, 'No template files found for language: <language>', no created and
\* no skipped file, createFileIfNotExists was not called for it, and main has
\* not been left through its outer catch; the final report holds that entry
\* once per occurrence of the language in the request.
C7_UnknownLanguage ==
    /\ \A k \in DOMAIN loads :
           Documents(loads[k].language) = {} =>
               /\ k \in DOMAIN returns
               /\ returns[k].idx = loads[k].idx
               /\ returns[k].errors = <<NoTemplatesEntry(loads[k].language)>>
               /\ returns[k].createdFiles = <<>>
               /\ returns[k].skippedFiles = <<>>
               /\ CallsOf(loads[k].idx) = <<>>
               /\ ~fatal
    /\ (Done /\ reported) =>
           \A l \in Requested :
               Documents(l) = {} =>
                   Cardinality({k \in DOMAIN allErrors : allErrors[k] = NoTemplatesEntry(l)})
                       = Cardinality({i \in DOMAIN languages : languages[i] = l})

\* C7 witness: the run has ended after a language without bundled documents
\* was processed next to one whose files were created.
C7_Witness ==
    /\ Done
    /\ \E k \in DOMAIN loads : Documents(loads[k].language) = {}
    /\ allCreatedFiles # <<>>

\* C8: when the run has ended and the load of some requested language
\* failed, every requested language was loaded, in request order; each
\* language whose load failed returned exactly one error entry and had no
\* file call; each language whose load succeeded had one file call per
\* template, and every free and writable path among them holds the
\* template's content and is reported as created.
C8_LoadFailureIsolated ==
    (Done /\ \E k \in DOMAIN loads : ~loads[k].result.success) =>
        /\ reported
        /\ Len(loads) = Len(languages)
        /\ Len(returns) = Len(languages)
        /\ \A i \in DOMAIN languages :
               /\ loads[i].idx = i /\ loads[i].language = languages[i]
               /\ returns[i].idx = i
               /\ IF loads[i].result.success
                  THEN /\ CallsFollowTemplates(i)
                       /\ \A j \in DOMAIN CallsOf(i) :
                              CallWritable(CallsOf(i)[j]) =>
                                  /\ files[CallsOf(i)[j].path] = CallsOf(i)[j].content
                                  /\ CallsOf(i)[j].path \in Range(allCreatedFiles)
                  ELSE /\ Len(returns[i].errors) = 1
                       /\ returns[i].createdFiles = <<>>
                       /\ returns[i].skippedFiles = <<>>
                       /\ CallsOf(i) = <<>>

\* C8 witness: the run has ended with a failed load for the first requested
\* language and a created file for a later one.
C8_Witness ==
    /\ Done
    /\ Len(loads) >= 2
    /\ ~loads[1].result.success
    /\ \E k \in DOMAIN calls :
           /\ calls[k].idx > 1
           /\ calls[k].result.success /\ ~calls[k].result.skipped

\* The target directory is empty, no I/O call can fail and every requested
\* language has bundled documents.
Fresh ==
    /\ baseDir0 # "file"
    /\ \A l \in Langs : langDir0[l] = "absent"
    /\ \A p \in Paths : files0[p] = NoFile
    /\ ~baseDenied /\ mkdirDenied = {} /\ writeDenied = {} /\ unreadable = {}
    /\ ~noSpace
    /\ \A l \in Requested : Documents(l) # {}

\* What a fresh generation leaves: exactly the target paths hold a file, each
\* with its template's content; the report lists one created entry per
\* target path, nothing skipped, no error; the exit status is 0.
FreshOutcome ==
    /\ reported
    /\ \A l \in Langs, f \in EntryNames :
           files[join(outputDir, l, f)] =
               IF l \in Requested /\ f \in Documents(l)
               THEN TemplateContent(l, f) ELSE NoFile
    /\ Range(allCreatedFiles) = TargetPaths
    /\ Len(allCreatedFiles) = Cardinality(TargetPaths)
    /\ allSkippedFiles = <<>>
    /\ allErrors = <<>>
    /\ exitCode = 0

\* C9 (as stated): a fresh generation, for any list of requested languages.
C9_FreshGeneration ==
    (Done /\ Fresh) => FreshOutcome

\* No language code occurs twice in the request.
DistinctLanguages ==
    \A i \in DOMAIN languages, j \in DOMAIN languages :
        languages[i] = languages[j] => i = j

\* C9 (amended): a fresh generation, for any list of requested languages
\* in which no language code occurs twice.
C9_FreshGenerationDistinct ==
    (Done /\ Fresh /\ DistinctLanguages) => FreshOutcome

\* C9 witness: a fresh generation for two different languages has ended.
C9_Witness ==
    /\ Done /\ Fresh /\ DistinctLanguages
    /\ Len(languages) = 2
    /\ Len(allCreatedFiles) = 3

\* C10: every FileCreationResult createFileIfNotExists has returned carries
\* the path it was called with; skipped implies success and no error;
\* failure implies not skipped; an error is present exactly on failure.
C10_ResultShape ==
    \A k \in DOMAIN calls :
        LET r == calls[k].result
        IN  /\ r.path = calls[k].path
            /\ r.skipped => (r.success /\ r.error = NoError)
            /\ ~r.success => ~r.skipped
            /\ r.error # NoError <=> ~r.success

\* C10 witness: one run has seen a skipped, a created and a failed result.
C10_Witness ==
    /\ \E k \in DOMAIN calls : calls[k].result.skipped
    /\ \E k \in DOMAIN calls : calls[k].result.success /\ ~calls[k].result.skipped
    /\ \E k \in DOMAIN calls : ~calls[k].result.success

\* The entry name of a target path.
FileNameOf(path) ==
    CHOOSE f \in EntryNames : \E l \in Langs : path = join(outputDir, l, f)

\* An I/O call of createFileIfNotExists call c fails: the existence probe
\* ends with an error other than "no such file", or the write the call went
\* on to fails.
IoFails(c) ==
    LET l == languages[c.idx]
        f == FileNameOf(c.path)
    IN  \/ Access(l, f) \notin {"ok", "ENOENT"}
        \/ c.before = NoFile /\ WriteFile(l, f) # "ok"

\* C11 (as stated): createFileIfNotExists never throws into main's outer
\* catch; every call during which the probe or the write failed returned
\* {success: false, skipped: false, error: <message>}; and after every call
\* that returned a failure the path holds what it held before the call
\* (nothing when there was no file).
C11_ErrorAsValue ==
    /\ fatal => calls = <<>>
    /\ \A k \in DOMAIN calls :
           /\ IoFails(calls[k]) =>
                  /\ ~calls[k].result.success
                  /\ ~calls[k].result.skipped
                  /\ calls[k].result.error # NoError
           /\ ~calls[k].result.success => files[calls[k].path] = calls[k].before
\* C12 (as stated): checkFileExists never throws and answers with the path
\* it was asked about; it has answered exists = false only for a path at
\* which there was no entry, and exists = true only for a path at which there
\* was one.
C12_ProbeExact ==
    /\ fatal => calls = <<>>
    /\ pc = "write" =>
           /\ fileCheck.path = join(outputDir, languages[langIdx],
                                    templates[tmplIdx].fileName)
           /\ ~fileCheck.exists
           /\ files[fileCheck.path] = NoFile
    /\ \A k \in DOMAIN calls :
           calls[k].result.skipped => calls[k].before # NoFile
\* What is at the dirPath of a settled ensureDirectoryExists call now.
DirAt(r) == IF r.idx = 0 THEN baseDir ELSE langDir[languages[r.idx]]

\* mkdir can create the directory of call r: nothing refuses it and the
\* parent is a directory.
Creatable(r) ==
    IF r.idx = 0 THEN ~baseDenied
    ELSE baseDir = "dir" /\ ~baseDenied /\ languages[r.idx] \notin mkdirDenied

C14_TrueOnlyIfDirectory ==
    \A r \in ensured : r.returned <=> r.after = "dir"
\* No mkdir of the createDirectoryStructure call failed.
NoCreationFailed == \A r \in ensured : r.code = "ok"

\* C15: once createDirectoryStructure has returned after mkdir calls that
\* all succeeded, the returned baseDir is the one passed in, languageDirs has
\* one entry per requested language, entry i being baseDir/languages[i], and
\* the base directory and the directory of every requested language exist as
\* directories.
C15_StructureReturned ==
    (structure.returned /\ NoCreationFailed) =>
        /\ structure.baseDir = outputDir
        /\ Len(structure.languageDirs) = Len(languages)
        /\ \A i \in DOMAIN languages :
               structure.languageDirs[i] = outputDir \o "/" \o languages[i]
        /\ baseDir = "dir"
        /\ \A i \in DOMAIN languages : langDir[languages[i]] = "dir"

\* C15 witness: createDirectoryStructure has returned for two different
\* languages with a base directory that already existed, after creating the
\* directory of one of them.
C15_Witness ==
    /\ structure.returned /\ NoCreationFailed
    /\ baseDir0 = "dir"
    /\ Len(languages) = 2 /\ languages[1] # languages[2]
    /\ \E l \in Requested : langDir0[l] = "absent" /\ langDir[l] = "dir"

\* C16 (as stated): when createDirectoryStructure has ended after the
\* creation of the base directory or of a language directory failed, the
\* base directory and every language directory are what they were when it
\* was called: none has been newly created.
C16_NoPartialStructure ==
    ((fatal \/ structure.returned) /\ ~NoCreationFailed) =>
        /\ baseDir = baseDir0
        /\ langDir = langDir0
\* C17: loadTemplatesFromRepository has never thrown into main's outer
\* catch; every result it returned is either a success with a non-empty list
\* of templates, no error, and every template carrying the requested
\* language and a file name ending in '.md', or a failure with no template
\* and an error message; it is a failure for every language whose directory
\* holds no entry with a name ending in '.md'.
C17_LoadResult ==
    /\ fatal => loads = <<>>
    /\ \A k \in DOMAIN loads :
           LET r == loads[k].result
               l == loads[k].language
           IN  /\ l = languages[loads[k].idx]
               /\ IF r.success
                  THEN /\ r.templates # <<>>
                       /\ r.error = NoError
                       /\ \A j \in DOMAIN r.templates :
                              /\ r.templates[j].language = l
                              /\ EndsWithMd(r.templates[j].fileName)
                  ELSE /\ r.templates = <<>>
                       /\ r.error # NoError
               /\ Documents(l) = {} => ~r.success

\* C17 witness: one run has seen a successful load of two templates and a
\* failed load for a language without any document.
C17_Witness ==
    /\ \E k \in DOMAIN loads :
           loads[k].result.success /\ Len(loads[k].result.templates) = 2
    /\ \E k \in DOMAIN loads :
           ~loads[k].result.success /\ Documents(loads[k].language) = {}

\* The entries of templates/<l> that are files with a name ending in '.md'.
DocumentFiles(l) == Documents(l) \ repoDir[l].dirs

\* C18 (as stated): every list discoverTemplateFiles has returned holds
\* exactly the entries of the language's directory that are files with a name
\* ending in '.md', each once; no subdirectory is in it.
C18_DiscoveryFilter ==
    \A k \in DOMAIN loads :
        LET l == loads[k].language
            d == loads[k].discovered
        IN  /\ Range(d) = DocumentFiles(l)
            /\ Len(d) = Cardinality(DocumentFiles(l))
            /\ \A j \in DOMAIN d : d[j] \notin repoDir[l].dirs

\* C19: for every language whose template directory readdir could not list,
\* discoverTemplateFiles has returned the empty list: the load answered 'No
\* template files found' and nothing was thrown into main's outer catch.
C19_DiscoveryNeverRaises ==
    \A k \in DOMAIN loads :
        ~repoDir[loads[k].language].exists =>
            /\ loads[k].discovered = <<>>
            /\ loads[k].result.error
                   = "No template files found for language: " \o loads[k].language
            /\ ~fatal

\* C19 witness: a language whose directory cannot be listed has been loaded
\* after a language whose templates were discovered.
C19_Witness ==
    \E k \in DOMAIN loads :
        /\ k > 1
        /\ ~repoDir[loads[k].language].exists
        /\ loads[k].discovered = <<>>
        /\ loads[1].discovered # <<>>
\* logResults has written a line with this message.
Logged(message) == \E i \in DOMAIN logged : logged[i].message = message

\* The numbers of results that were created, skipped and failed.
CreatedCount == Cardinality({i \in DOMAIN results :
                                results[i].success /\ ~results[i].skipped})
SkippedCount == Cardinality({i \in DOMAIN results : results[i].skipped})
FailedCount == Cardinality({i \in DOMAIN results : ~results[i].success})

\* C20 (as stated): once logResults has been called, it has reported
\* results.length as the number of files processed; it has reported n
\* created, n skipped and n failed files exactly for n the number of results
\* with success and not skipped, with skipped, and with success = false (and
\* nothing for a number of zero); and it has ended with 'All operations
\* completed successfully!' exactly when no result has success = false, with
\* 'Completed with N errors' for N the number of such results otherwise.
C20_LogResultsConsistent ==
    logged # NoLog =>
        /\ Logged("File generation completed: " \o ToString(Len(results))
                      \o " files processed")
        /\ \A n \in 0..Len(results) :
               /\ Logged("Created " \o ToString(n) \o " new prompt files:")
                      <=> (n = CreatedCount /\ n > 0)
               /\ Logged("Skipped " \o ToString(n) \o " existing files (preserved):")
                      <=> (n = SkippedCount /\ n > 0)
               /\ Logged("Failed to create " \o ToString(n) \o " files:")
                      <=> (n = FailedCount /\ n > 0)
               /\ Logged("Completed with " \o ToString(n)
                             \o " errors. Check the messages above for details.")
                      <=> (n = FailedCount /\ n > 0)
        /\ Logged("All operations completed successfully!") <=> FailedCount = 0
\* The ensureDirectoryExists call for the i-th requested language has settled.
Settled(i) == \E r \in ensured : r.idx = i

\* C21: once a template has been loaded or createFileIfNotExists has been
\* called, the mkdir of the base directory and of every requested language
\* has settled and none is in flight; in particular the mkdir of a call's
\* language had settled before the call.
C21_DirectoriesBeforeWrites ==
    /\ (loads # <<>> \/ calls # <<>> \/ pc \in {"loop", "check", "write"}) =>
           /\ pending = {}
           /\ Settled(0)
           /\ \A i \in DOMAIN languages : Settled(i)
    /\ \A k \in DOMAIN calls : Settled(calls[k].idx)

\* C21 witness: a file has been written into a language directory that the
\* run itself created, the second of two that it created.
C21_Witness ==
    /\ Len(languages) = 2 /\ languages[1] # languages[2]
    /\ \A l \in Requested : langDir0[l] = "absent" /\ langDir[l] = "dir"
    /\ \E k \in DOMAIN calls :
           calls[k].idx = 2 /\ calls[k].result.success /\ ~calls[k].result.skipped
\* C22 (as stated): when the run has ended, for every requested language
\* whose mkdir did not create or find a directory (a regular file in its
\* place included), createFileIfNotExists was not called for it and its
\* generatePromptFiles call is in the report with exactly one error.
C22_DirFailureLanguageScoped ==
    Done =>
        \A r \in ensured :
            (r.idx # 0 /\ r.code # "ok") =>
                /\ CallsOf(r.idx) = <<>>
                /\ reported
                /\ \E k \in DOMAIN returns :
                       /\ returns[k].idx = r.idx
                       /\ Len(returns[k].errors) = 1
                       /\ returns[k].createdFiles = <<>>
                       /\ returns[k].skippedFiles = <<>>
\* The read of some discovered template file of load k fails.
ReadFails(k) ==
    \E j \in DOMAIN loads[k].discovered :
        TemplatePath(loads[k].language, loads[k].discovered[j]) \in unreadable

\* C23: every load during which the read of a discovered file failed
\* returned success = false with no template; createFileIfNotExists was not
\* called for that occurrence of the language, no file of the language was
\* written by it, and its generatePromptFiles call returned exactly one
\* error, nothing created and nothing skipped.
C23_AllOrNothingLoad ==
    \A k \in DOMAIN loads :
        ReadFails(k) =>
            /\ ~loads[k].result.success
            /\ loads[k].result.templates = <<>>
            /\ CallsOf(loads[k].idx) = <<>>
            /\ \A f \in EntryNames :
                   files[join(outputDir, loads[k].language, f)]
                       = files0[join(outputDir, loads[k].language, f)]
            /\ k \in DOMAIN returns
            /\ returns[k].idx = loads[k].idx
            /\ Len(returns[k].errors) = 1
            /\ returns[k].createdFiles = <<>>
            /\ returns[k].skippedFiles = <<>>

\* C23 witness: the run has ended after a load in which one of two
\* discovered files could be read and the other could not.
C23_Witness ==
    /\ Done
    /\ \E k \in DOMAIN loads :
           /\ ReadFails(k)
           /\ Len(loads[k].discovered) = 2
           /\ \E j \in DOMAIN loads[k].discovered :
                  TemplatePath(loads[k].language, loads[k].discovered[j])
                      \notin unreadable
RECURSIVE ExpectedEntries(_)
\* The entries the first k loads account for: one per template of a load that
\* succeeded, one for a load that failed.
ExpectedEntries(k) ==
    IF k = 0 THEN 0
    ELSE ExpectedEntries(k - 1)
             + (IF loads[k].result.success
                THEN Len(loads[k].result.templates) ELSE 1)

\* The calls for the i-th requested language that ended as created, as
\* skipped, and as failed.
CreatedCalls(i) ==
    {j \in DOMAIN CallsOf(i) :
        CallsOf(i)[j].result.success /\ ~CallsOf(i)[j].result.skipped}
SkippedCalls(i) ==
    {j \in DOMAIN CallsOf(i) :
        CallsOf(i)[j].result.success /\ CallsOf(i)[j].result.skipped}
FailedCalls(i) == {j \in DOMAIN CallsOf(i) : ~CallsOf(i)[j].result.success}

\* C24: createFileIfNotExists is never called more often for an occurrence
\* of a language than it has templates; when generatePromptFiles has returned
\* for an occurrence whose load succeeded, it was called once per template,
\* in order, and every call is in exactly one of the returned lists; when
\* main has ended, its three lists together hold one entry per template of
\* the loads that succeeded and one per load that failed, and the reported
\* totalFiles is the number of created and skipped files.
C24_ExactlyOnce ==
    /\ \A k \in DOMAIN loads :
           loads[k].result.success =>
               Len(CallsOf(loads[k].idx)) <= Len(loads[k].result.templates)
    /\ \A k \in DOMAIN returns :
           loads[k].result.success =>
               /\ CallsFollowTemplates(returns[k].idx)
               /\ Len(returns[k].createdFiles) = Cardinality(CreatedCalls(returns[k].idx))
               /\ Len(returns[k].skippedFiles) = Cardinality(SkippedCalls(returns[k].idx))
               /\ Len(returns[k].errors) = Cardinality(FailedCalls(returns[k].idx))
    /\ Done =>
           Len(allCreatedFiles) + Len(allSkippedFiles) + Len(allErrors)
               = ExpectedEntries(Len(loads))
    /\ (Done /\ reported) =>
           /\ Len(loads) = Len(languages)
           /\ totalFiles = Len(allCreatedFiles) + Len(allSkippedFiles)

\* C24 witness: main has reported a run in which a file was created, a file
\* was skipped and a call failed.
C24_Witness ==
    /\ Done /\ reported
    /\ allCreatedFiles # <<>> /\ allSkippedFiles # <<>>
    /\ \E k \in DOMAIN calls : ~calls[k].result.success
    /\ totalFiles > 0
\* C25: the templates of every load that succeeded are as many as the
\* discovered file names and carry them in the same order, and the
\* createFileIfNotExists calls made for the language so far are for the
\* first of these names, in that order.
C25_DiscoveryOrder ==
    \A k \in DOMAIN loads :
        loads[k].result.success =>
            LET d == loads[k].discovered
                tl == loads[k].result.templates
                cs == CallsOf(loads[k].idx)
            IN  /\ Len(tl) = Len(d)
                /\ \A j \in DOMAIN d : tl[j].fileName = d[j]
                /\ Len(cs) <= Len(d)
                /\ \A j \in DOMAIN cs :
                       cs[j].path = join(outputDir, loads[k].language, d[j])

\* C25 witness: two templates were loaded for a language and both files have
\* been written, the one discovered first before the other.
C25_Witness ==
    \E k \in DOMAIN loads :
        /\ loads[k].result.success
        /\ Len(loads[k].discovered) = 2
        /\ loads[k].discovered[1] # loads[k].discovered[2]
        /\ Len(CallsOf(loads[k].idx)) = 2
        /\ \A j \in 1..2 : CallsOf(loads[k].idx)[j].result.success
                              /\ ~CallsOf(loads[k].idx)[j].result.skipped
CreatedBy(c) == c.result.success /\ ~c.result.skipped

\* C27: whatever codes are repeated in the request, at most one
\* createFileIfNotExists call has created the file of a path, a path is at
\* most once among the created files that main and the running
\* generatePromptFiles have collected, and every call on a path after the call
\* that created it returned skipped; when main has reported, such a path is
\* in the skipped files.
C27_DuplicatesHarmless ==
    /\ \A p \in Paths :
           /\ Cardinality({k \in DOMAIN calls :
                              calls[k].path = p /\ CreatedBy(calls[k])}) <= 1
           /\ Cardinality({k \in DOMAIN allCreatedFiles : allCreatedFiles[k] = p})
                  + Cardinality({k \in DOMAIN createdFiles : createdFiles[k] = p
                                     /\ pc \in {"check", "write"}}) <= 1
    /\ \A k1 \in DOMAIN calls, k2 \in DOMAIN calls :
           (k1 < k2 /\ calls[k1].path = calls[k2].path /\ CreatedBy(calls[k1])) =>
               /\ calls[k2].result.success /\ calls[k2].result.skipped
               /\ calls[k2].before = calls[k1].content
               /\ files[calls[k2].path] = calls[k1].content
               /\ (Done /\ reported) => calls[k2].path \in Range(allSkippedFiles)

\* C27 witness: the same language was requested twice; the first occurrence
\* created two files, the second one reported both as skipped.
C27_Witness ==
    /\ Done /\ reported
    /\ Len(languages) = 2 /\ languages[1] = languages[2]
    /\ Len(allCreatedFiles) = 2
    /\ Range(allSkippedFiles) = Range(allCreatedFiles)
\* Both concurrent invocations have ended.
AllExited == \A p \in Procs : runs[p].pc = "exited"

\* The paths invocation p reported as created, as skipped.
CreatedIn(p) == Range(runs[p].createdFiles)
SkippedIn(p) == Range(runs[p].skippedFiles)

\* C28: two invocations with the same bundled templates run against the same
\* outputDir, their checks and writes interleaved in any order: a file that
\* existed before both keeps its content at every moment, and once both have
\* ended every other target file holds exactly its bundled template content.
C28_ConcurrentNonDestructive ==
    /\ \A p \in Paths : files0[p] # NoFile => files[p] = files0[p]
    /\ AllExited =>
           \A l \in Requested : \A f \in Documents(l) :
               files0[join(outputDir, l, f)] = NoFile =>
                   files[join(outputDir, l, f)] = TemplateContent(l, f)
    /\ AllExited =>
           \A p \in Paths \ TargetPaths : files[p] = files0[p]

\* C28 witness: both invocations have ended, one file was there before them
\* and was kept, and another was written by both of them, each having
\* checked before the other wrote.
C28_Witness ==
    /\ AllExited
    /\ \E p \in TargetPaths : files0[p] = Custom /\ files[p] = Custom
    /\ \E p \in TargetPaths : /\ files0[p] = NoFile
                             /\ p \in CreatedIn(1) \cap CreatedIn(2)
\* outputDir held no file before the two invocations.
InitiallyEmpty == \A p \in Paths : files0[p] = NoFile

\* How often invocation p reported the path, as created or as skipped.
TimesReported(p, path) ==
    Cardinality({i \in DOMAIN runs[p].createdFiles : runs[p].createdFiles[i] = path})
    + Cardinality({i \in DOMAIN runs[p].skippedFiles : runs[p].skippedFiles[i] = path})

LoadFailed(i) ==
    \E k \in DOMAIN loads : loads[k].idx = i /\ ~loads[k].result.success

\* C30: in a run whose mkdir calls all succeed, outputDir/<language> is a
\* directory for every requested language before the first template is loaded
\* and from then on; a language whose template load fails is left with that
\* directory, no file created in it, and its generatePromptFiles call returns
\* exactly the load's error entry, which is in the report.
C30_DirectoriesForEveryLanguage ==
    NoCreationFailed =>
        /\ (structure.returned \/ loads # <<>>) =>
               baseDir = "dir" /\ \A l \in Requested : langDir[l] = "dir"
        /\ \A k \in DOMAIN loads : ~loads[k].result.success =>
               /\ langDir[loads[k].language] = "dir"
               /\ CallsOf(loads[k].idx) = <<>>
               /\ \A f \in EntryNames :
                      files[join(outputDir, loads[k].language, f)]
                          = files0[join(outputDir, loads[k].language, f)]
               /\ \E n \in DOMAIN returns :
                      /\ returns[n].idx = loads[k].idx
                      /\ returns[n].createdFiles = <<>>
                      /\ returns[n].skippedFiles = <<>>
                      /\ returns[n].errors =
                             <<LoadErrorEntry(loads[k].language, loads[k].result.error)>>
               /\ Done =>
                      /\ reported
                      /\ \E n \in DOMAIN allErrors :
                             allErrors[n] = LoadErrorEntry(loads[k].language,
                                                           loads[k].result.error)

\* C30 witness: the run has ended; it made the directory of a language
\* without bundled templates, which is left empty with the error entry in the
\* report, next to the directory of a language whose files it created.
C30_Witness ==
    /\ Done /\ reported /\ NoCreationFailed
    /\ \E i, j \in DOMAIN languages :
           /\ langDir0[languages[i]] = "absent" /\ langDir[languages[i]] = "dir"
           /\ Documents(languages[i]) = {}
           /\ LoadFailed(i)
           /\ \A f \in EntryNames : files[join(outputDir, languages[i], f)] = NoFile
           /\ \E n \in DOMAIN allErrors : allErrors[n] = NoTemplatesEntry(languages[i])
           /\ i < j
           /\ langDir0[languages[j]] = "absent"
           /\ \E c \in Range(calls) : c.idx = j /\ CreatedBy(c)
====
